---- MODULE Spec2Model ----
(***************************************************************************)
(* Model of the PFH5 pack-file reader (src/pack_reader.py, PFH5Reader) and *)
(* of the header reader of src/python_pack_reader.py (PythonPackReader).   *)
(*                                                                         *)
(* The archive on disk is a sequence of bytes (0..255).  Every reader      *)
(* method is one action; a method that calls another method performs the   *)
(* callee's effect inside the same action.                                 *)
(***************************************************************************)
EXTENDS Integers, Sequences, FiniteSets, TLC

VARIABLES
    pack,              \* what pack_path names: [kind, bytes], and, for an archive
                       \* made from known members, those members
    reader,            \* "none" | "alive": whether a PFH5Reader object exists
    header,            \* PFH5Reader.header
    entries,           \* PFH5Reader.entries
    file_data_offset,  \* PFH5Reader.file_data_offset
    last,              \* the last call: operation, exception, result, file I/O
    threads,           \* per thread: the call it is in, where it is in it, its locals
    cursors,           \* per open file object on the archive: its file position
    output             \* the file at the output path handed to extract_file

vars == <<pack, reader, header, entries, file_data_offset, last, threads, cursors, output>>

----------------------------------------------------------------------------
(* Bounds of the model *)

\* members per generated archive
MaxMembers == 2
\* byte size of the secondary (PF) index in archives that carry one
PfBytes == 2

----------------------------------------------------------------------------
(* Bytes *)

Min(a, b) == IF a < b THEN a ELSE b

\* Python slice data[lo:hi] of a bytes object (0-based, clipped at the end)
Slice(data, lo, hi) ==
    IF lo >= Min(hi, Len(data)) THEN <<>> ELSE SubSeq(data, lo + 1, Min(hi, Len(data)))

\* struct.unpack('<I', four)[0]
Unpack(four) == four[1] + 256 * four[2] + 65536 * four[3] + 16777216 * four[4]

\* a & b on non-negative integers
RECURSIVE BitAnd(_, _)
BitAnd(a, b) ==
    IF a = 0 \/ b = 0 THEN 0
    ELSE (IF a % 2 = 1 /\ b % 2 = 1 THEN 1 ELSE 0) + 2 * BitAnd(a \div 2, b \div 2)

\* data.find(b'\x00', pos): index of the first zero byte at or after pos, else -1
RECURSIVE Find0(_, _)
Find0(data, pos) ==
    IF pos >= Len(data) THEN -1
    ELSE IF data[pos + 1] = 0 THEN pos
    ELSE Find0(data, pos + 1)

IsCont(b) == b >= 128 /\ b <= 191

\* bytes.decode('utf-8', errors='ignore'): the code points of the well-formed
\* sequences; the bytes of every ill-formed sequence are dropped
RECURSIVE Decode(_, _)
Decode(b, i) ==
    IF i > Len(b) THEN <<>>
    ELSE LET c == b[i]
             has(k) == i + k <= Len(b)
             lo2 == IF c = 224 THEN 160 ELSE IF c = 240 THEN 144 ELSE 128
             hi2 == IF c = 237 THEN 159 ELSE IF c = 244 THEN 143 ELSE 191
             ok2 == has(1) /\ b[i + 1] >= lo2 /\ b[i + 1] <= hi2
         IN  IF c < 128 THEN <<c>> \o Decode(b, i + 1)
             ELSE IF c >= 194 /\ c <= 223 THEN
                 IF has(1) /\ IsCont(b[i + 1])
                 THEN <<(c - 192) * 64 + (b[i + 1] - 128)>> \o Decode(b, i + 2)
                 ELSE Decode(b, i + 1)
             ELSE IF c >= 224 /\ c <= 239 THEN
                 IF ~ok2 THEN Decode(b, i + 1)
                 ELSE IF has(2) /\ IsCont(b[i + 2])
                 THEN <<(c - 224) * 4096 + (b[i + 1] - 128) * 64 + (b[i + 2] - 128)>>
                      \o Decode(b, i + 3)
                 ELSE Decode(b, i + 2)
             ELSE IF c >= 240 /\ c <= 244 THEN
                 IF ~ok2 THEN Decode(b, i + 1)
                 ELSE IF ~(has(2) /\ IsCont(b[i + 2])) THEN Decode(b, i + 2)
                 ELSE IF has(3) /\ IsCont(b[i + 3])
                 THEN <<(c - 240) * 262144 + (b[i + 1] - 128) * 4096
                        + (b[i + 2] - 128) * 64 + (b[i + 3] - 128)>>
                      \o Decode(b, i + 4)
                 ELSE Decode(b, i + 3)
             ELSE Decode(b, i + 1)

DecodeUtf8Ignore(b) == Decode(b, 1)

----------------------------------------------------------------------------
(* PFH5Reader: constants and the header *)

FLAG_EXTENDED_HEADER == 1048576
FLAG_INDEX_ENCRYPTED == 32768
FLAG_TIMESTAMP_IN_INDEX == 1024
FLAG_DATA_PADDED == 16

\* the value of a PackFileEntry.timestamp that was never read (Python None)
None == -1

PFH5 == <<80, 70, 72, 53>>

\* self.header = {} : the empty dict is the record whose nonempty field is FALSE
EmptyHeader ==
    [nonempty |-> FALSE, preamble |-> <<>>, pack_type |-> 0, type_bitmask |-> 0,
     flags |-> 0, pf_index_count |-> 0, pf_index_size |-> 0, file_index_count |-> 0,
     file_index_size |-> 0, timestamp |-> 0, signature_pos |-> 0,
     has_extended_header |-> FALSE, index_encrypted |-> FALSE,
     has_timestamps |-> FALSE, data_padded |-> FALSE]

\* get_file_info's result before any call
NoInfo == [file_count |-> 0, total_size |-> 0, extensions |-> {}, header |-> EmptyHeader]

\* PythonPackReader.read_header's None
NoPyHeader == [ok |-> FALSE, signature |-> <<>>, version |-> 0, file_count |-> 0, index_size |-> 0]

\* file I/O events of a call, in order
Ev(k, n) == [k |-> k, n |-> n]

Closing_UnlessRaised(events, exc) ==
    <<Ev("open", 0)>> \o events \o (IF exc = "" THEN <<Ev("close", 0)>> ELSE <<>>)
\* "with open(self.pack_path, 'rb') as f:" around the file operations events:
\* the file object is closed when the block is left, by a return or by the
\* exception exc raised inside it
Closing(events, exc) == <<Ev("open", 0)>> \o events \o <<Ev("close", 0)>>

\* the outcome of a call on reader state S: the new reader state, the exception
\* raised ("" for a normal return), the values returned and the I/O performed
Outcome(S, exc, io) ==
    [header |-> S.header, entries |-> S.entries, file_data_offset |-> S.file_data_offset,
     exc |-> exc, io |-> io, ret |-> <<>>, data |-> <<>>, parsed |-> FALSE,
     pos |-> 0, stop |-> "", info |-> NoInfo]

\* line 75
PackType_Mask7(type_bitmask) == BitAnd(type_bitmask, 7)
PackType(type_bitmask) == BitAnd(type_bitmask, 15)

\* type_bitmask & 0xFFFFFFF0 on an unsigned 32-bit value: the low nibble cleared
\* (the mask itself does not fit TLC's 32-bit integers; the archives of the model
\* keep every 32-bit field below 2^31)
Flags(type_bitmask) == type_bitmask - BitAnd(type_bitmask, 15)

HasFlag(flags, flag) == BitAnd(flags, flag) # 0

\* lines 78-93: the header dict
HeaderDict(header_data, type_bitmask, flags) ==
        [nonempty |-> TRUE,
         preamble |-> Slice(header_data, 0, 4),
         pack_type |-> PackType(type_bitmask),
         type_bitmask |-> type_bitmask,
         flags |-> flags,
         pf_index_count |-> Unpack(Slice(header_data, 8, 12)),
         pf_index_size |-> Unpack(Slice(header_data, 12, 16)),
         file_index_count |-> Unpack(Slice(header_data, 16, 20)),
         file_index_size |-> Unpack(Slice(header_data, 20, 24)),
         timestamp |-> Unpack(Slice(header_data, 24, 28)),
         signature_pos |-> Unpack(Slice(header_data, 28, 32)),
         has_extended_header |-> HasFlag(flags, FLAG_EXTENDED_HEADER),
         index_encrypted |-> HasFlag(flags, FLAG_INDEX_ENCRYPTED),
         has_timestamps |-> HasFlag(flags, FLAG_TIMESTAMP_IN_INDEX),
         data_padded |-> HasFlag(flags, FLAG_DATA_PADDED)]

\* lines 75-76: pack type and flags of the type word
SplitTypeWord(header_data, type_bitmask) ==
    HeaderDict(header_data, type_bitmask, Flags(type_bitmask))

\* lines 65-93: the header dict from the 32 header bytes
ParseHeader(header_data) == SplitTypeWord(header_data, Unpack(Slice(header_data, 4, 8)))

\* the magic tags PFH5Reader.read_header accepts
AcceptAnyPFH(preamble) == Len(preamble) = 4 /\ SubSeq(preamble, 1, 3) = <<80, 70, 72>>
MagicAccepted(preamble) == preamble = PFH5

HeaderOf_StoresBeforeCheck(p, S) ==
    IF p.kind # "file" THEN Outcome(S, "OSError", <<>>)
    ELSE LET header_data == Slice(p.bytes, 0, 32)
         IN  IF Len(header_data) < 32
             THEN Outcome(S, "ValueError", Closing(<<Ev("read", 32)>>, "ValueError"))
             ELSE [Outcome(S, IF MagicAccepted(Slice(header_data, 0, 4)) THEN "" ELSE "ValueError",
                           Closing(<<Ev("read", 32)>>, ""))
                      EXCEPT !.header = ParseHeader(header_data)]

\* PFH5Reader.read_header on the file p (open, read 32 bytes, checks, parse)
HeaderOf(p, S) ==
    IF p.kind # "file" THEN Outcome(S, "OSError", <<>>)
    ELSE LET header_data == Slice(p.bytes, 0, 32)
             io(exc) == Closing(<<Ev("read", 32)>>, exc)
         IN  IF Len(header_data) < 32 THEN Outcome(S, "ValueError", io("ValueError"))
             ELSE IF ~MagicAccepted(Slice(header_data, 0, 4))
                  THEN Outcome(S, "ValueError", io("ValueError"))
             ELSE [Outcome(S, "", io("")) EXCEPT !.header = ParseHeader(header_data)]

----------------------------------------------------------------------------
(* PFH5Reader: the file index *)

HeaderSize_Always32(hdr) == 32
\* lines 108-110
HeaderSize(hdr) == IF hdr.has_extended_header THEN 32 + 20 ELSE 32

IndexStart_AfterHeaderOnly(hdr) == HeaderSize(hdr)
\* line 113: where the file index starts
IndexStart(hdr) == HeaderSize(hdr) + hdr.pf_index_size

\* line 163: where the file data starts
DataStart(hdr) == HeaderSize(hdr) + hdr.pf_index_size + hdr.file_index_size

NextOffset_RoundDown(hdr, current_offset, size) ==
    IF hdr.data_padded THEN current_offset + (size \div 8) * 8 ELSE current_offset + size
NextOffset_AlwaysPadded(hdr, current_offset, size) == current_offset + ((size + 7) \div 8) * 8
\* lines 153-158: the offset of the entry after one of this size
NextOffset(hdr, current_offset, size) ==
    IF hdr.data_padded
    THEN current_offset + ((size + 7) \div 8) * 8
    ELSE current_offset + size

PackFileEntry(path, size, offset, timestamp) ==
    [path |-> path, size |-> size, offset |-> offset, timestamp |-> timestamp]

\* lines 119-158: the record loop, n iterations left, cursor pos.  The result is
\* the entries list, the cursor, and why the loop ended ("" when the count ran out)
Stopped(acc, pos, why) == [entries |-> acc, pos |-> pos, stop |-> why]

RECURSIVE ParseIndex(_, _, _, _, _, _)

ParseRecord_TimestampFromSize(data, hdr, n, pos, current_offset, acc, path_end, size) ==
    IF path_end + 1 + 4 > Len(data) THEN Stopped(acc, path_end + 1, "no size")
    ELSE IF hdr.has_timestamps /\ path_end + 5 + 4 > Len(data)
         THEN Stopped(acc, path_end + 5, "no timestamp")
    ELSE ParseIndex(data, hdr, n - 1,
                    IF hdr.has_timestamps THEN path_end + 9 ELSE path_end + 5,
                    NextOffset(hdr, current_offset, size),
                    Append(acc, PackFileEntry(
                        DecodeUtf8Ignore(Slice(data, pos, path_end)), size, current_offset,
                        IF hdr.has_timestamps THEN size ELSE None)))

ParseRecord_AdvanceFirst(data, hdr, n, pos, current_offset, acc, path_end, size) ==
    IF path_end + 1 + 4 > Len(data) THEN Stopped(acc, path_end + 5, "no size")
    ELSE IF hdr.has_timestamps /\ path_end + 5 + 4 > Len(data)
         THEN Stopped(acc, path_end + 9, "no timestamp")
    ELSE ParseIndex(data, hdr, n - 1,
                    IF hdr.has_timestamps THEN path_end + 9 ELSE path_end + 5,
                    NextOffset(hdr, current_offset, size),
                    Append(acc, PackFileEntry(
                        DecodeUtf8Ignore(Slice(data, pos, path_end)), size, current_offset,
                        IF hdr.has_timestamps
                        THEN Unpack(Slice(data, path_end + 5, path_end + 9)) ELSE None)))

\* lines 135-158: size, timestamp, the entry, the next offset; the path ends at
\* path_end and size is the value of the four bytes after it
ParseRecord(data, hdr, n, pos, current_offset, acc, path_end, size) ==
    IF path_end + 1 + 4 > Len(data) THEN Stopped(acc, path_end + 1, "no size")
    ELSE IF hdr.has_timestamps /\ path_end + 5 + 4 > Len(data)
         THEN Stopped(acc, path_end + 5, "no timestamp")
    ELSE ParseIndex(data, hdr, n - 1,
                    IF hdr.has_timestamps THEN path_end + 9 ELSE path_end + 5,
                    NextOffset(hdr, current_offset, size),
                    Append(acc, PackFileEntry(
                        DecodeUtf8Ignore(Slice(data, pos, path_end)), size, current_offset,
                        IF hdr.has_timestamps
                        THEN Unpack(Slice(data, path_end + 5, path_end + 9)) ELSE None)))

\* lines 127-133: the path runs to the next zero byte
ParsePath(data, hdr, n, pos, current_offset, acc, path_end) ==
    IF path_end = -1 THEN Stopped(acc, pos, "no terminator")
    ELSE ParseRecord(data, hdr, n, pos, current_offset, acc, path_end,
                     Unpack(Slice(data, path_end + 1, path_end + 5)))

ParseIndex_IgnoresCount(data, hdr, n, pos, current_offset, acc) ==
    IF pos >= Len(data) THEN Stopped(acc, pos, "exhausted")
    ELSE ParsePath(data, hdr, n, pos, current_offset, acc, Find0(data, pos))

ParseIndex(data, hdr, n, pos, current_offset, acc) ==
    IF n = 0 THEN Stopped(acc, pos, "")
    ELSE IF pos >= Len(data) THEN Stopped(acc, pos, "exhausted")
    ELSE ParsePath(data, hdr, n, pos, current_offset, acc, Find0(data, pos))

\* lines 160-165: the parsed entries are stored and returned
StoreIndex(h, start, r) ==
    [h EXCEPT !.io = h.io \o Closing(<<Ev("seek", start),
                                         Ev("read", h.header.file_index_size)>>, ""),
              !.entries = r.entries,
              !.file_data_offset = DataStart(h.header),
              !.ret = r.entries,
              !.parsed = TRUE, !.pos = r.pos, !.stop = r.stop]

\* lines 106-158: seek past header and PF index, read the file index, parse it
LoadIndex(p, h, start) ==
    StoreIndex(h, start,
               ParseIndex(Slice(p.bytes, start, start + h.header.file_index_size),
                          h.header, h.header.file_index_count, 0, 0, <<>>))

IndexAfterHeader_IgnoreEncrypted(p, h) ==
    IF h.exc # "" THEN h ELSE LoadIndex(p, h, IndexStart(h.header))

IndexAfterHeader_DespiteError(p, h) ==
    IF h.header.index_encrypted THEN h ELSE LoadIndex(p, h, IndexStart(h.header))

\* lines 102-165, h the outcome of lines 99-100
IndexAfterHeader(p, h) ==
    IF h.exc # "" THEN h
    ELSE IF h.header.index_encrypted THEN h
    ELSE LoadIndex(p, h, IndexStart(h.header))

\* PFH5Reader.read_file_index on the file p
IndexOf(p, S) ==
    IndexAfterHeader(p, IF ~S.header.nonempty THEN HeaderOf(p, S) ELSE Outcome(S, "", <<>>))

----------------------------------------------------------------------------
(* PFH5Reader: listing, extraction, summary *)

Range(f) == {f[i] : i \in DOMAIN f}

\* str.lower() on the code points the model uses (ASCII and Latin-1 letters)
Lower(c) ==
    IF (c >= 65 /\ c <= 90) \/ (c >= 192 /\ c <= 222 /\ c # 215) THEN c + 32 ELSE c

LowerStr(s) == [i \in 1..Len(s) |-> Lower(s[i])]

\* pat in s  (substring test)
Contains(pat, s) ==
    \E i \in 0..(Len(s) - Len(pat)) : SubSeq(s, i + 1, i + Len(pat)) = pat

\* the list comprehension of line 174, in list order
RECURSIVE Filter(_, _)
Filter(es, pattern_lower) ==
    IF es = <<>> THEN <<>>
    ELSE (IF Contains(pattern_lower, LowerStr(Head(es).path)) THEN <<Head(es)>> ELSE <<>>)
         \o Filter(Tail(es), pattern_lower)

\* "if not self.entries: self.read_file_index()" of list_files, extract_file
\* and get_file_info
EnsureIndex(p, S) == IF S.entries = <<>> THEN IndexOf(p, S) ELSE Outcome(S, "", <<>>)

ListFrom_PatternAsGiven(r, pattern) ==
    IF r.exc # "" THEN r
    ELSE IF pattern # <<>>
         THEN [r EXCEPT !.ret = Filter(r.entries, pattern)]
         ELSE [r EXCEPT !.ret = r.entries]
\* lines 172-176, r the outcome of lines 169-170
ListFrom(r, pattern) ==
    IF r.exc # "" THEN r
    ELSE IF pattern # <<>>
         THEN [r EXCEPT !.ret = Filter(r.entries, LowerStr(pattern))]
         ELSE [r EXCEPT !.ret = r.entries]

\* PFH5Reader.list_files(pattern); the empty pattern stands for None (both falsy)
ListOf(p, S, pattern) == ListFrom(EnsureIndex(p, S), pattern)

\* lines 183-186: f.seek(position); f.read(size) on the archive
ReadAt(bytes, position, size) == Slice(bytes, position, position + size)

SeekPos_Relative(S, entry) == entry.offset
\* line 185: the position extract_file seeks to
SeekPos(S, entry) == S.file_data_offset + entry.offset

\* lines 183-194, r the outcome of lines 180-181
ExtractFrom(p, r, entry, position) ==
    IF r.exc # "" THEN r
    ELSE IF p.kind # "file" THEN [r EXCEPT !.exc = "OSError"]
    ELSE [r EXCEPT !.io = r.io \o Closing(<<Ev("seek", position),
                                              Ev("read", entry.size)>>, ""),
                   !.ret = <<>>,
                   !.data = ReadAt(p.bytes, position, entry.size)]

ExtractAt(p, r, entry) == ExtractFrom(p, r, entry, SeekPos(r, entry))

\* PFH5Reader.extract_file(entry), output_path left at its default None
ExtractOf(p, S, entry) == ExtractAt(p, EnsureIndex(p, S), entry)

\* index of the last occurrence of c in s, 0 when absent
RECURSIVE LastIndexOf(_, _)
LastIndexOf(s, c) ==
    IF s = <<>> THEN 0
    ELSE IF s[Len(s)] = c THEN Len(s)
    ELSE LastIndexOf(SubSeq(s, 1, Len(s) - 1), c)

\* pathlib: Path(path).name, the last component that is neither empty nor "."
RECURSIVE PathName(_)

LastComponent(s, i) ==
    IF i = Len(s) \/ SubSeq(s, i + 1, Len(s)) = <<46>>
    THEN (IF i = 0 THEN <<>> ELSE PathName(SubSeq(s, 1, i - 1)))
    ELSE SubSeq(s, i + 1, Len(s))

PathName(s) == IF s = <<>> THEN <<>> ELSE LastComponent(s, LastIndexOf(s, 47))

SuffixFrom(name, j) == IF j > 1 /\ j < Len(name) THEN SubSeq(name, j, Len(name)) ELSE <<>>

SuffixOfName(name) == SuffixFrom(name, LastIndexOf(name, 46))

\* pathlib: Path(path).suffix
PathSuffix(s) == SuffixOfName(PathName(s))

\* '.no_extension'
NoExtension == <<46, 110, 111, 95, 101, 120, 116, 101, 110, 115, 105, 111, 110>>

OrNoExtension(ext) == IF ext = <<>> THEN NoExtension ELSE ext

ExtOf_CaseKept(entry) == OrNoExtension(PathSuffix(entry.path))
\* lines 206-208
ExtOf(entry) == OrNoExtension(LowerStr(PathSuffix(entry.path)))

Count_LastSize(extensions, ext, entry) ==
    {IF x.ext = ext THEN [x EXCEPT !.count = @ + 1, !.size = entry.size] ELSE x :
        x \in (IF \E y \in extensions : y.ext = ext THEN extensions
               ELSE extensions \cup {[ext |-> ext, count |-> 0, size |-> 0]})}

\* lines 205-215: the loop over the entries; the dict is a set of
\* [ext, count, size] records, one per key
\* lines 210-214: one entry counted under its key
Count(extensions, ext, entry) ==
    {IF x.ext = ext THEN [x EXCEPT !.count = @ + 1, !.size = @ + entry.size] ELSE x :
        x \in (IF \E y \in extensions : y.ext = ext THEN extensions
               ELSE extensions \cup {[ext |-> ext, count |-> 0, size |-> 0]})}

RECURSIVE Summarize(_, _, _)
Summarize(es, extensions, total_size) ==
    IF es = <<>> THEN [extensions |-> extensions, total_size |-> total_size]
    ELSE Summarize(Tail(es), Count(extensions, ExtOf(Head(es)), Head(es)),
                   total_size + Head(es).size)

InfoDict_CountsKeys(r, sum) ==
    [r EXCEPT !.ret = <<>>,
              !.info = [file_count |-> Cardinality(sum.extensions),
                        total_size |-> sum.total_size,
                        extensions |-> sum.extensions, header |-> r.header]]

\* lines 217-222
InfoDict(r, sum) ==
    [r EXCEPT !.ret = <<>>,
              !.info = [file_count |-> Len(r.entries), total_size |-> sum.total_size,
                        extensions |-> sum.extensions, header |-> r.header]]

\* lines 201-222, r the outcome of lines 198-199
InfoFrom(r) == IF r.exc # "" THEN r ELSE InfoDict(r, Summarize(r.entries, {}, 0))

\* PFH5Reader.get_file_info()
InfoOf(p, S) == InfoFrom(EnsureIndex(p, S))

----------------------------------------------------------------------------
(* PythonPackReader.read_header *)

\* SIGNATURES: PFH5, PFH4, PFH3, PFH6
SIGNATURES == {<<80, 70, 72, 53>>, <<80, 70, 72, 52>>, <<80, 70, 72, 51>>, <<80, 70, 72, 54>>}

\* PythonPackReader.read_header(f) on a file just opened by analyze(): the
\* returned PackFileHeader, or None (ok = FALSE)
PyHeaderOf(p) ==
    LET signature == Slice(p.bytes, 0, 4)
    IN  IF signature \notin SIGNATURES THEN NoPyHeader
        ELSE IF Len(Slice(p.bytes, 4, 16)) < 12 THEN NoPyHeader
        ELSE [ok |-> TRUE, signature |-> signature,
              version |-> Unpack(Slice(p.bytes, 4, 8)),
              file_count |-> Unpack(Slice(p.bytes, 8, 12)),
              index_size |-> Unpack(Slice(p.bytes, 12, 16))]

----------------------------------------------------------------------------
(* The archives the reader is run on *)

\* the members archives are generated from: path (code points) and content
Catalog ==
    { [path |-> <<97, 46, 116>>, blob |-> <<102, 111, 111>>],
      [path |-> <<66>>, blob |-> <<104, 105>>],
      [path |-> <<233>>, blob |-> <<1, 2, 3, 4, 5, 6, 7, 8>>] }

MemberLists == UNION {[1..n -> Catalog] : n \in 0..MaxMembers}

RECURSIVE EncodeUtf8(_)
EncodeUtf8(cps) ==
    IF cps = <<>> THEN <<>>
    ELSE LET c == Head(cps)
         IN  (IF c < 128 THEN <<c>> ELSE <<192 + (c \div 64), 128 + (c % 64)>>)
             \o EncodeUtf8(Tail(cps))

Pack32(n) == <<n % 256, (n \div 256) % 256, (n \div 65536) % 256, (n \div 16777216) % 256>>

Fill(k, b) == [i \in 1..k |-> b]

\* the per-member timestamp written when the index carries timestamps
StampOf(i) == 16909060 + i

RECURSIVE IndexBytes(_, _, _)
IndexBytes(ms, ts, i) ==
    IF i > Len(ms) THEN <<>>
    ELSE EncodeUtf8(ms[i].path) \o <<0>> \o Pack32(Len(ms[i].blob))
         \o (IF ts THEN Pack32(StampOf(i)) ELSE <<>>)
         \o IndexBytes(ms, ts, i + 1)

RECURSIVE DataBytes(_, _, _)
DataBytes(ms, pad, i) ==
    IF i > Len(ms) THEN <<>>
    ELSE ms[i].blob
         \o (IF pad THEN Fill((8 - (Len(ms[i].blob) % 8)) % 8, 0) ELSE <<>>)
         \o DataBytes(ms, pad, i + 1)

FlagSets == [pad : BOOLEAN, ts : BOOLEAN, enc : BOOLEAN, ext : BOOLEAN]

\* bits of the type word that are neither the pack type nor one of the four flags
NoiseBits == 32 + 2048 + 65536 + 2097152

TypeWord(ptype, F, noise) ==
    ptype + (IF F.pad THEN 16 ELSE 0) + (IF F.ts THEN 1024 ELSE 0)
    + (IF F.enc THEN 32768 ELSE 0) + (IF F.ext THEN 1048576 ELSE 0) + noise

Layout(magic, tword, F, pfsize, count, index, data) ==
    magic \o Pack32(tword)
    \o Pack32(IF pfsize = 0 THEN 0 ELSE 1) \o Pack32(pfsize)
    \o Pack32(count) \o Pack32(Len(index))
    \o Pack32(16909060) \o Pack32(258)
    \o (IF F.ext THEN Fill(20, 238) ELSE <<>>)
    \o Fill(pfsize, 204)
    \o index
    \o data

\* header + (extended header) + secondary index + file index + data
\* count is the member count the header declares
Archive(magic, ptype, F, noise, pfsize, ms, count) ==
    Layout(magic, TypeWord(ptype, F, noise), F, pfsize, count,
           IndexBytes(ms, F.ts, 1), DataBytes(ms, F.pad, 1))

Plain(F) == ~F.enc /\ ~F.ext

NotMade == [known |-> FALSE, members |-> <<>>, pad |-> FALSE, ts |-> FALSE]

File(b) == [kind |-> "file", bytes |-> b, made |-> NotMade]

\* well-formed archives, made from known (path, bytes) pairs
Built ==
    {[kind |-> "file", bytes |-> Archive(PFH5, 0, F, 0, pf, ms, Len(ms)),
      made |-> [known |-> TRUE, members |-> ms, pad |-> F.pad, ts |-> F.ts]] :
        F \in {G \in FlagSets : ~G.enc}, pf \in {0, PfBytes}, ms \in MemberLists}

\* archives cut short on disk at any length
Truncated ==
    UNION {{SubSeq(a, 1, k) : k \in 0..(Len(a) - 1)} :
        a \in {Archive(PFH5, 0, F, 0, 0, ms, Len(ms)) :
                 F \in {G \in FlagSets : Plain(G) /\ ~G.pad}, ms \in MemberLists}}

\* archives whose header declares one member more or fewer than the index holds
Miscounted ==
    {Archive(PFH5, 0, F, 0, 0, ms, Len(ms) + d) :
        F \in {G \in FlagSets : Plain(G)}, ms \in MemberLists \ {<<>>}, d \in {-1, 1}}

OneMember == <<[path |-> <<97, 46, 116>>, blob |-> <<102, 111, 111>>]>>

\* every pack type, flag combination and stray bits in the type word
TypeWords ==
    {Archive(PFH5, ptype, F, noise, PfBytes, OneMember, 1) :
        ptype \in {0, 1, 2, 3, 4, 9, 15}, F \in FlagSets, noise \in {0, NoiseBits}}

\* archives with an encrypted index
Encrypted ==
    {Archive(PFH5, 0, F, 0, 0, ms, Len(ms)) :
        F \in {G \in FlagSets : G.enc /\ ~G.ext}, ms \in MemberLists}

\* member paths with and without a filename suffix: a.T, d/e.t, a.b.C, .a, a.,
\* x.y/c; member k of the list holds k bytes
SuffixPaths ==
    {<<97, 46, 84>>, <<100, 47, 101, 46, 116>>, <<97, 46, 98, 46, 67>>,
     <<46, 97>>, <<97, 46>>, <<120, 46, 121, 47, 99>>}

SuffixLists == {[k \in 1..2 |-> [path |-> ps[k], blob |-> Fill(k, 7)]] : ps \in [1..2 -> SuffixPaths]}

Suffixed ==
    {Archive(PFH5, 0, [pad |-> FALSE, ts |-> FALSE, enc |-> FALSE, ext |-> FALSE],
             0, 0, ms, Len(ms)) : ms \in SuffixLists}

\* path bytes as they stand in the index: empty, a byte that is never valid
\* (a 0xFF b), a lead byte with nothing after it, a lone continuation byte,
\* and the valid "a" + U+00E9
RawPaths == {<<>>, <<97, 255, 98>>, <<195>>, <<128>>, <<97, 195, 169>>}

RECURSIVE RawIndexBytes(_, _)
RawIndexBytes(rs, i) ==
    IF i > Len(rs) THEN <<>>
    ELSE rs[i] \o <<0>> \o Pack32(1) \o RawIndexBytes(rs, i + 1)

\* archives whose members have these path bytes and one byte of content each
RawPathed ==
    {Layout(PFH5, 0, [pad |-> FALSE, ts |-> FALSE, enc |-> FALSE, ext |-> FALSE],
            0, Len(rs), RawIndexBytes(rs, 1), Fill(Len(rs), 7)) :
        rs \in UNION {[1..n -> RawPaths] : n \in 1..2}}

Magics == SIGNATURES \cup {<<80, 70, 72, 48>>, <<77, 90, 144, 0>>}

\* files with other magic tags, whole or cut short
OtherMagic ==
    UNION {{SubSeq(a, 1, k) : k \in 0..Len(a)} :
        a \in {Archive(m, 0, [pad |-> FALSE, ts |-> FALSE, enc |-> FALSE, ext |-> FALSE],
                       0, 0, OneMember, 1) : m \in Magics \ {PFH5}}}

Packs ==
    Built
    \cup {File(b) : b \in Truncated \cup Miscounted \cup TypeWords \cup Encrypted \cup OtherMagic
                        \cup Suffixed \cup RawPathed}
    \cup {[kind |-> "missing", bytes |-> <<>>, made |-> NotMade],
          [kind |-> "dir", bytes |-> <<>>, made |-> NotMade]}

----------------------------------------------------------------------------
(* The state machine *)

NoEntry == PackFileEntry(<<>>, 0, 0, None)

\* an entry object the caller made itself, not one of the reader's
ForeignEntries == {PackFileEntry(<<120>>, 2, 1, None)}

\* the patterns list_files is called with; <<>> is "no pattern"
Patterns == {<<>>, <<84>>, <<98>>}

NoCall ==
    [op |-> "", exc |-> "", io |-> <<>>, ret |-> <<>>, data |-> <<>>, parsed |-> FALSE,
     pos |-> 0, stop |-> "", info |-> NoInfo, py |-> NoPyHeader,
     entry |-> NoEntry, own |-> FALSE, pattern |-> <<>>, out |-> "",
     file_path |-> <<>>]

Self == [header |-> header, entries |-> entries, file_data_offset |-> file_data_offset]

\* the call's record, from its outcome
Call(op, r) ==
    [NoCall EXCEPT !.op = op, !.exc = r.exc, !.io = r.io, !.ret = r.ret, !.data = r.data,
                   !.parsed = r.parsed, !.pos = r.pos, !.stop = r.stop, !.info = r.info]

\* the reader's fields after the call
Becomes(r) ==
    /\ header' = r.header
    /\ entries' = r.entries
    /\ file_data_offset' = r.file_data_offset

\* the threads that share one reader
Threads == {"t1", "t2"}

\* a thread outside any call, before its first
IdleThread ==
    [pc |-> "idle", op |-> "", calls |-> 0, entry |-> NoEntry, got |-> <<>>,
     saw |-> "", base |-> None, ready |-> FALSE, data |-> <<>>]

\* no file at the output path
NoOutput == [exists |-> FALSE, bytes |-> <<>>]

\* a reader not yet constructed, threads not started, nothing written
Fresh ==
    /\ header = EmptyHeader
    /\ entries = <<>>
    /\ file_data_offset = 0
    /\ last = NoCall
    /\ threads = [t \in Threads |-> IdleThread]
    /\ cursors = [t \in Threads |-> 0]
    /\ output = NoOutput

Init ==
    /\ pack \in Packs
    /\ reader = "none"
    /\ Fresh

\* Path.exists()
Exists(p) == p.kind # "missing"

\* PFH5Reader(pack_path)
Construct ==
    /\ reader = "none"
    /\ IF Exists(pack)
       THEN /\ reader' = "alive"
            /\ last' = [NoCall EXCEPT !.op = "init"]
       ELSE /\ reader' = "none"
            /\ last' = [NoCall EXCEPT !.op = "init", !.exc = "FileNotFoundError"]
    /\ header' = EmptyHeader
    /\ entries' = <<>>
    /\ file_data_offset' = 0
    /\ UNCHANGED <<pack, threads, cursors, output>>

read_header ==
    /\ reader = "alive"
    /\ \E r \in {HeaderOf(pack, Self)} :
         Becomes(r) /\ last' = Call("read_header", r)
    /\ UNCHANGED <<pack, reader, threads, cursors, output>>

read_file_index ==
    /\ reader = "alive"
    /\ \E r \in {IndexOf(pack, Self)} :
         Becomes(r) /\ last' = Call("read_file_index", r)
    /\ UNCHANGED <<pack, reader, threads, cursors, output>>

list_files ==
    /\ reader = "alive"
    /\ \E pattern \in Patterns :
       \E r \in {ListOf(pack, Self, pattern)} :
         Becomes(r) /\ last' = [Call("list_files", r) EXCEPT !.pattern = pattern]
    /\ UNCHANGED <<pack, reader, threads, cursors, output>>

extract_file ==
    /\ reader = "alive"
    /\ \E entry \in Range(entries) \cup ForeignEntries :
       \E r \in {ExtractOf(pack, Self, entry)} :
             /\ Becomes(r)
             /\ last' = [Call("extract_file", r) EXCEPT !.entry = entry,
                                                        !.own = entry \in Range(entries)]
    /\ UNCHANGED <<pack, reader, threads, cursors, output>>

get_file_info ==
    /\ reader = "alive"
    /\ \E r \in {InfoOf(pack, Self)} :
         Becomes(r) /\ last' = Call("get_file_info", r)
    /\ UNCHANGED <<pack, reader, threads, cursors, output>>

\* PythonPackReader(pack_path).analyze() as far as its read_header call
py_read_header ==
    /\ last' = [NoCall EXCEPT !.op = "py_read_header",
                              !.py = IF pack.kind = "file" THEN PyHeaderOf(pack) ELSE NoPyHeader]
    /\ UNCHANGED <<pack, reader, header, entries, file_data_offset, threads, cursors, output>>

Next ==
    \/ Construct
    \/ read_header
    \/ read_file_index
    \/ list_files
    \/ extract_file
    \/ get_file_info
    \/ py_read_header

Spec == Init /\ [][Next]_vars

----------------------------------------------------------------------------
(* Two threads calling list_files / extract_file on one PFH5Reader.  The    *)
(* interpreter may switch threads between any two bytecodes, so a step is   *)
(* a stretch of a method holding one access to the reader's attributes: no  *)
(* method of PFH5Reader takes a lock.                                       *)

\* the calls one thread makes
MaxCalls == 2

ThreadLists ==
    {<<>>,
     <<[path |-> <<97, 46, 116>>, blob |-> <<102, 111, 111>>]>>,
     <<[path |-> <<97, 46, 116>>, blob |-> <<102, 111, 111>>],
       [path |-> <<66>>, blob |-> <<104, 105>>]>>}

\* the archives the threads share a reader on
ThreadPacks ==
    {[kind |-> "file", bytes |-> Archive(PFH5, 0, F, 0, 0, ms, Len(ms)),
      made |-> [known |-> TRUE, members |-> ms, pad |-> F.pad, ts |-> F.ts]] :
        F \in {G \in FlagSets : Plain(G) /\ ~G.ts}, ms \in ThreadLists}

HandleOf_Shared(t) == CHOOSE u \in Threads : TRUE
\* line 183: "with open(self.pack_path, 'rb') as f" opens a file object of the
\* call's own; its position is this call's alone
HandleOf(t) == t

\* the index has been stored whole: header, entries and file_data_offset
Ready == header.nonempty /\ file_data_offset # 0

\* where a call goes on once "if not self.entries: self.read_file_index()" is over
After(op) == IF op = "list_files" THEN "return" ELSE "seek"

Step(t, rec) == threads' = [threads EXCEPT ![t] = rec]

Enter(t, op, entry) ==
    Step(t, [threads[t] EXCEPT !.pc = "check", !.op = op, !.entry = entry, !.saw = "",
                               !.base = None, !.ready = Ready, !.data = <<>>])

Leave(t, rec) == Step(t, [rec EXCEPT !.pc = "idle", !.calls = @ + 1])

\* a thread calls list_files()
t_list_files(t) ==
    /\ threads[t].pc = "idle"
    /\ threads[t].calls < MaxCalls
    /\ Enter(t, "list_files", NoEntry)
    /\ UNCHANGED <<pack, reader, header, entries, file_data_offset, last, cursors, output>>

\* a thread calls extract_file(entry) with an entry list_files gave it, or one
\* it made itself
t_extract_file(t) ==
    /\ threads[t].pc = "idle"
    /\ threads[t].calls < MaxCalls
    /\ \E entry \in Range(threads[t].got) \cup ForeignEntries : Enter(t, "extract_file", entry)
    /\ UNCHANGED <<pack, reader, header, entries, file_data_offset, last, cursors, output>>

\* lines 169 and 180: "if not self.entries"
t_check(t) ==
    /\ threads[t].pc = "check"
    /\ IF entries = <<>>
       THEN Step(t, [threads[t] EXCEPT !.pc = "rfi_header", !.saw = "empty"])
       ELSE Step(t, [threads[t] EXCEPT
                        !.pc = After(threads[t].op),
                        !.saw = IF file_data_offset = 0 THEN "unset" ELSE "ready"])
    /\ UNCHANGED <<pack, reader, header, entries, file_data_offset, last, cursors, output>>

\* lines 99-104: read_file_index loads the header when there is none, and
\* returns at once on an encrypted index.  (Two threads that both load the
\* header store the same dict.)
t_rfi_header(t) ==
    /\ threads[t].pc = "rfi_header"
    /\ \E r \in {IF ~header.nonempty THEN HeaderOf(pack, Self) ELSE Outcome(Self, "", <<>>)} :
         /\ header' = r.header
         /\ IF r.exc # "" THEN Leave(t, threads[t])
            ELSE IF r.header.index_encrypted
                 THEN Step(t, [threads[t] EXCEPT !.pc = After(threads[t].op)])
                 ELSE Step(t, [threads[t] EXCEPT !.pc = "rfi_entries"])
    /\ UNCHANGED <<pack, reader, entries, file_data_offset, last, cursors, output>>

\* lines 106-160: the index is read and parsed into a local list, then
\* "self.entries = entries"
t_rfi_entries(t) ==
    /\ threads[t].pc = "rfi_entries"
    /\ \E r \in {LoadIndex(pack, Outcome(Self, "", <<>>), IndexStart(header))} :
         entries' = r.entries
    /\ Step(t, [threads[t] EXCEPT !.pc = "rfi_offset"])
    /\ UNCHANGED <<pack, reader, header, file_data_offset, last, cursors, output>>

\* lines 163-165: "self.file_data_offset = ..." and the return
t_rfi_offset(t) ==
    /\ threads[t].pc = "rfi_offset"
    /\ file_data_offset' = DataStart(header)
    /\ Step(t, [threads[t] EXCEPT !.pc = After(threads[t].op)])
    /\ UNCHANGED <<pack, reader, header, entries, last, cursors, output>>

\* lines 171-176 with no pattern: "return self.entries"
t_return(t) ==
    /\ threads[t].pc = "return"
    /\ Leave(t, [threads[t] EXCEPT !.got = ListFrom(Outcome(Self, "", <<>>), <<>>).ret])
    /\ UNCHANGED <<pack, reader, header, entries, file_data_offset, last, cursors, output>>

\* lines 183-185: open, and seek to self.file_data_offset + entry.offset
t_seek(t) ==
    /\ threads[t].pc = "seek"
    /\ cursors' = [cursors EXCEPT ![HandleOf(t)] = SeekPos(Self, threads[t].entry)]
    /\ Step(t, [threads[t] EXCEPT !.pc = "read", !.base = file_data_offset])
    /\ UNCHANGED <<pack, reader, header, entries, file_data_offset, last, output>>

\* lines 186-194: read entry.size bytes at the file object's position, close
t_read(t) ==
    /\ threads[t].pc = "read"
    /\ Leave(t, [threads[t] EXCEPT
                    !.data = ReadAt(pack.bytes, cursors[HandleOf(t)], threads[t].entry.size)])
    /\ cursors' = [cursors EXCEPT ![HandleOf(t)] = 0]
    /\ UNCHANGED <<pack, reader, header, entries, file_data_offset, last, output>>

InitThreads ==
    /\ pack \in ThreadPacks
    /\ reader = "alive"
    /\ Fresh

NextThreads ==
    \E t \in Threads :
        \/ t_list_files(t)
        \/ t_extract_file(t)
        \/ t_check(t)
        \/ t_rfi_header(t)
        \/ t_rfi_entries(t)
        \/ t_rfi_offset(t)
        \/ t_return(t)
        \/ t_seek(t)
        \/ t_read(t)

SpecThreads == InitThreads /\ [][NextThreads]_vars

----------------------------------------------------------------------------
(* extract_file with an output path *)

\* the output paths extract_file is handed: a path of its own, or the path
\* the reader was constructed with
OutputPaths == {"other", "pack_path"}

\* lines 189-192: "with open(output_path, 'wb') as f: f.write(data)" replaces
\* the content of whatever file the path names
ArchiveAfterWrite(p, out, r) ==
    IF r.exc = "" /\ out = "pack_path"
    THEN [p EXCEPT !.bytes = r.data, !.made = NotMade]
    ELSE p

OutputAfterWrite(o, out, r) ==
    IF r.exc = "" /\ out = "other" THEN [exists |-> TRUE, bytes |-> r.data] ELSE o

\* PFH5Reader.extract_file(entry, output_path)
extract_file_to ==
    /\ reader = "alive"
    /\ \E entry \in Range(entries) \cup ForeignEntries, out \in OutputPaths :
       \E r \in {ExtractOf(pack, Self, entry)} :
             /\ Becomes(r)
             /\ last' = [Call("extract_file", r) EXCEPT !.entry = entry, !.out = out,
                                                        !.own = entry \in Range(entries)]
             /\ pack' = ArchiveAfterWrite(pack, out, r)
             /\ output' = OutputAfterWrite(output, out, r)
    /\ UNCHANGED <<reader, threads, cursors>>

InitOutput ==
    /\ pack \in ThreadPacks
    /\ reader = "none"
    /\ Fresh

NextOutput == Next \/ extract_file_to

SpecOutput == InitOutput /\ [][NextOutput]_vars

----------------------------------------------------------------------------
(* extract_file when the archive cannot be opened at that moment *)

\* line 183: open(self.pack_path, 'rb') raises OSError; r is the outcome of
\* lines 180-181
ExtractUnopened(r) == IF r.exc # "" THEN r ELSE [r EXCEPT !.exc = "OSError", !.ret = <<>>]

\* PFH5Reader.extract_file(entry), the open of line 183 failing
extract_file_open_error ==
    /\ reader = "alive"
    /\ \E entry \in Range(entries) \cup ForeignEntries :
       \E r \in {ExtractUnopened(EnsureIndex(pack, Self))} :
             /\ Becomes(r)
             /\ last' = [Call("extract_file", r) EXCEPT !.entry = entry,
                                                        !.own = entry \in Range(entries)]
    /\ UNCHANGED <<pack, reader, threads, cursors, output>>

\* well-formed archives, and files that are not PFH5 archives
FaultPacks == ThreadPacks \cup {File(b) : b \in OtherMagic}

InitFaults ==
    /\ pack \in FaultPacks
    /\ reader = "none"
    /\ Fresh

NextFaults == Next \/ extract_file_open_error

SpecFaults == InitFaults /\ [][NextFaults]_vars

----------------------------------------------------------------------------
(* main(): one run of the command line per action.  The reader is local to *)
(* the run; what the run listed, selected, read and wrote is kept in last   *)
(* and output.                                                              *)

\* the fields of a PFH5Reader just constructed
FreshSelf == [header |-> EmptyHeader, entries |-> <<>>, file_data_offset |-> 0]

\* line 240: reader = PFH5Reader(pack_file)
CliReader(p) ==
    IF Exists(p) THEN Outcome(FreshSelf, "", <<>>)
    ELSE Outcome(FreshSelf, "FileNotFoundError", <<>>)

\* str.endswith
EndsWith(str, suffix) ==
    /\ Len(suffix) <= Len(str)
    /\ SubSeq(str, Len(str) - Len(suffix) + 1, Len(str)) = suffix

\* lines 294-299: the first entry whose path is, or ends with, file_path: a
\* list of that entry, or the empty list for None
RECURSIVE FirstMatch(_, _)
FirstMatch(es, file_path) ==
    IF es = <<>> THEN <<>>
    ELSE IF Head(es).path = file_path \/ EndsWith(Head(es).path, file_path) THEN <<Head(es)>>
    ELSE FirstMatch(Tail(es), file_path)

\* lines 301-307, r the outcome of list_files(): exit when nothing matched,
\* else extract_file(entry, Path('extracted') / entry.path)
CliExtractFound(p, r, found) ==
    IF r.exc # "" THEN r
    ELSE IF found = <<>> THEN [r EXCEPT !.exc = "SystemExit"]
    ELSE [ExtractAt(p, r, found[1]) EXCEPT !.ret = r.ret]

\* lines 291-292: entries = reader.list_files()
CliListing(p, c, pattern) == IF c.exc # "" THEN c ELSE ListOf(p, FreshSelf, pattern)

\* the file written by line 191
CliWritten(o, x) == IF x.exc = "" THEN [exists |-> TRUE, bytes |-> x.data] ELSE o

\* lines 245-253, h the outcome of reader.read_header()
CliInfoFrom(p, h) ==
    IF h.exc # "" THEN h
    ELSE IF h.header.index_encrypted THEN h
    ELSE InfoOf(p, [header |-> h.header, entries |-> h.entries,
                    file_data_offset |-> h.file_data_offset])

CliInfo(p, c) == IF c.exc # "" THEN c ELSE CliInfoFrom(p, HeaderOf(p, FreshSelf))

\* the members archives handed to the command line are made from: d/a.t,
\* a.t, a.t again with other content, B
CliCatalog ==
    { [path |-> <<100, 47, 97, 46, 116>>, blob |-> <<120, 121>>],
      [path |-> <<97, 46, 116>>, blob |-> <<102, 111, 111>>],
      [path |-> <<97, 46, 116>>, blob |-> <<104, 105>>],
      [path |-> <<66>>, blob |-> <<1>>] }

CliLists == UNION {[1..n -> CliCatalog] : n \in 1..3}

CliPacks ==
    {[kind |-> "file", bytes |-> Archive(PFH5, 0, F, 0, 0, ms, Len(ms)),
      made |-> [known |-> TRUE, members |-> ms, pad |-> F.pad, ts |-> F.ts]] :
        F \in {G \in FlagSets : Plain(G) /\ ~G.ts /\ ~G.pad}, ms \in CliLists}
    \cup {[kind |-> "missing", bytes |-> <<>>, made |-> NotMade]}

\* the names given to the extract command: a.t, d/a.t, t, B, zz
CliNames == {<<97, 46, 116>>, <<100, 47, 97, 46, 116>>, <<116>>, <<66>>, <<122, 122>>}

CliRan == UNCHANGED <<pack, reader, header, entries, file_data_offset, threads, cursors>>

\* pack_reader.py <pack_file> info
cli_info ==
    /\ \E r \in {CliInfo(pack, CliReader(pack))} : last' = Call("cli_info", r)
    /\ UNCHANGED output
    /\ CliRan

\* pack_reader.py <pack_file> list [pattern]
cli_list ==
    /\ \E pattern \in Patterns :
       \E r \in {CliListing(pack, CliReader(pack), pattern)} :
         last' = [Call("cli_list", r) EXCEPT !.pattern = pattern]
    /\ UNCHANGED output
    /\ CliRan

\* pack_reader.py <pack_file> extract <file>
cli_extract ==
    /\ \E file_path \in CliNames :
       \E r \in {CliListing(pack, CliReader(pack), <<>>)} :
       \E found \in {IF r.exc = "" THEN FirstMatch(r.ret, file_path) ELSE <<>>} :
       \E x \in {CliExtractFound(pack, r, found)} :
         /\ last' = [Call("cli_extract", x) EXCEPT
                        !.file_path = file_path,
                        !.own = found # <<>>,
                        !.entry = IF found # <<>> THEN found[1] ELSE NoEntry]
         /\ output' = CliWritten(output, x)
    /\ CliRan

InitCli ==
    /\ pack \in CliPacks
    /\ reader = "none"
    /\ Fresh

NextCli == cli_info \/ cli_list \/ cli_extract

SpecCli == InitCli /\ [][NextCli]_vars

----------------------------------------------------------------------------
(* Properties *)

\* the little-endian 32-bit value stored at byte offset off of the archive
WordAt(off) ==
    pack.bytes[off + 1] + pack.bytes[off + 2] * 256
    + pack.bytes[off + 3] * 256 * 256 + pack.bytes[off + 4] * 256 * 256 * 256

\* bit k of n
Bit(n, k) == (n \div (2 ^ k)) % 2 = 1

\* the archive starts with a header PFH5Reader reads
GoodHeader == pack.kind = "file" /\ Len(pack.bytes) >= 32 /\ SubSeq(pack.bytes, 1, 4) = PFH5

\* n rounded up to the next multiple of 8
RoundUp8(n) == IF n % 8 = 0 THEN n ELSE n + (8 - (n % 8))

\* the size entry i contributes to the offsets after it
Contribution(i) ==
    IF Bit(WordAt(4), 4) THEN RoundUp8(entries[i].size) ELSE entries[i].size

RECURSIVE ContributionsBefore(_)
ContributionsBefore(i) ==
    IF i <= 1 THEN 0 ELSE ContributionsBefore(i - 1) + Contribution(i - 1)

\* C1: in every decoded index the first entry has offset 0 and each following
\* entry's offset is the previous entry's offset plus the previous entry's size,
\* rounded up to a multiple of 8 when the data-padded flag is set; equivalently
\* entry i's offset is the sum of the (padded) sizes of the entries before it.
C1_OffsetsCumulative ==
    entries # <<>> =>
        /\ entries[1].offset = 0
        /\ \A i \in 1..(Len(entries) - 1) :
               entries[i + 1].offset = entries[i].offset + Contribution(i)
        /\ \A i \in 1..Len(entries) : entries[i].offset = ContributionsBefore(i)

C1_Witness ==
    /\ last.op = "read_file_index"
    /\ Len(entries) >= 2
    /\ Bit(WordAt(4), 4)
    /\ entries[1].size % 8 # 0
    /\ entries[2].offset = 8

\* C2: an archive built from N known (path, bytes) pairs decodes to the same N
\* paths in the same order with size equal to each blob's length, and
\* extract_file on each entry returns exactly that member's bytes.
C2_RoundTrip ==
    pack.made.known =>
        /\ last.op = "read_file_index" =>
               /\ last.exc = ""
               /\ Len(last.ret) = Len(pack.made.members)
               /\ last.ret = entries
               /\ \A i \in 1..Len(entries) :
                      /\ entries[i].path = pack.made.members[i].path
                      /\ entries[i].size = Len(pack.made.members[i].blob)
        /\ (last.op = "extract_file" /\ last.own) =>
               /\ last.exc = ""
               /\ Len(entries) = Len(pack.made.members)
               /\ \A i \in 1..Len(entries) :
                      entries[i] = last.entry => last.data = pack.made.members[i].blob

\* the scenario a.t = "foo", B = "hi": offsets 0 and 3, the second extracts as "hi"
C2_Witness ==
    /\ pack.made.known
    /\ ~pack.made.pad
    /\ last.op = "extract_file"
    /\ last.own
    /\ Len(entries) = 2
    /\ entries[1].offset = 0
    /\ entries[2].offset = 3
    /\ last.entry = entries[2]
    /\ last.data = <<104, 105>>

\* C3: whenever read_file_index returns a member list for an archive whose
\* index is not encrypted, the list has exactly file_index_count entries; an
\* index exhausted early never produces a shorter list.
C3_ExactCount ==
    (last.op = "read_file_index" /\ last.exc = "" /\ GoodHeader /\ ~Bit(WordAt(4), 15)) =>
        Len(last.ret) = WordAt(16)

\* C4: when a record has no zero terminator, or fewer than 4 bytes remain for
\* its size, or for its timestamp, read_file_index fails: no partial member list
\* is returned and none is stored in the reader's entries.
C4_TruncationFails ==
    (last.op = "read_file_index" /\ last.stop \in {"no terminator", "no size", "no timestamp"}) =>
        /\ last.exc # ""
        /\ last.ret = <<>>
        /\ entries = <<>>

\* where the data region starts: header (32, or 52 with the extended-header
\* flag) + secondary-index bytes + member-index bytes
DataRegionStart ==
    (IF Bit(WordAt(4), 20) THEN 52 ELSE 32) + WordAt(12) + WordAt(20)

\* the seek and read events of the last archive access of the call
LastSeek == last.io[Len(last.io) - 2]
LastRead == last.io[Len(last.io) - 1]

\* C5: for every entry produced by read_file_index, extract_file reads from
\* absolute position dataRegionStart + entry.offset and requests exactly
\* entry.size bytes.
C5_ExtractPosition ==
    (last.op = "extract_file" /\ last.own /\ last.exc = "") =>
        /\ Len(last.io) >= 4
        /\ LastSeek = Ev("seek", DataRegionStart + last.entry.offset)
        /\ LastRead = Ev("read", last.entry.size)
        /\ \A k \in 1..Len(last.data) :
               last.data[k] = pack.bytes[DataRegionStart + last.entry.offset + k]

C5_Witness ==
    /\ last.op = "extract_file"
    /\ last.own
    /\ last.exc = ""
    /\ Bit(WordAt(4), 20)
    /\ WordAt(12) > 0
    /\ last.entry.offset > 0
    /\ Len(last.data) = last.entry.size
    /\ last.entry.size > 0

\* C6: when the archive holds fewer than entry.size bytes at
\* dataRegionStart + entry.offset, extract_file fails with an I/O error; it
\* never returns a byte string shorter than entry.size.
C6_ShortReadFails ==
    (last.op = "extract_file" /\ last.own
       /\ Len(pack.bytes) < DataRegionStart + last.entry.offset + last.entry.size) =>
        /\ last.exc # ""
        /\ last.data = <<>>

\* the archive's header has the index-encrypted flag set
EncryptedArchive == GoodHeader /\ Bit(WordAt(4), 15)

\* C7: on an archive with the index-encrypted flag set, read_file_index parses
\* no index bytes, returns an empty list and raises nothing; the header stays
\* available and list_files / get_file_info report zero members.
C7_EncryptedDegrades ==
    EncryptedArchive =>
        /\ entries = <<>>
        /\ last.op \in {"read_file_index", "list_files", "get_file_info"} =>
               /\ last.exc = ""
               /\ last.ret = <<>>
               /\ ~last.parsed
               /\ \A k \in 1..Len(last.io) : last.io[k].k # "seek"
               /\ header.nonempty
               /\ header.index_encrypted
        /\ last.op = "get_file_info" =>
               /\ last.info.file_count = 0
               /\ last.info.extensions = {}
               /\ last.info.header = header

C7_Witness ==
    /\ EncryptedArchive
    /\ WordAt(16) = 2
    /\ WordAt(20) > 0
    /\ last.op = "get_file_info"
    /\ last.info.file_count = 0
    /\ last.info.header.index_encrypted

\* the first four bytes of the file
Magic == SubSeq(pack.bytes, 1, Min(4, Len(pack.bytes)))

C9_HeaderFields ==
    header.nonempty =>
        /\ header.pack_type = WordAt(4) % 16
        /\ header.has_extended_header = Bit(WordAt(4), 20)
        /\ header.index_encrypted = Bit(WordAt(4), 15)
        /\ header.has_timestamps = Bit(WordAt(4), 10)
        /\ header.data_padded = Bit(WordAt(4), 4)
        /\ header.type_bitmask = WordAt(4)
        /\ header.pf_index_count = WordAt(8)
        /\ header.pf_index_size = WordAt(12)
        /\ header.file_index_count = WordAt(16)
        /\ header.file_index_size = WordAt(20)
        /\ header.timestamp = WordAt(24)
        /\ header.signature_pos = WordAt(28)

\* pack type 9 with only the encrypted and padded flags, among stray bits
C9_Witness ==
    /\ last.op = "read_header"
    /\ header.nonempty
    /\ WordAt(4) = 9 + 16 + 32768 + NoiseBits
    /\ header.pack_type = 9
    /\ header.index_encrypted
    /\ header.data_padded
    /\ ~header.has_timestamps
    /\ ~header.has_extended_header
    /\ header.timestamp = 16909060

\* C10: constructing PFH5Reader fails with a not-found error whenever the path
\* does not resolve to a readable file; then no reader object is created and
\* no header or index read is attempted.
C10_OpenFails ==
    pack.kind # "file" =>
        /\ last.op = "init" => last.exc = "FileNotFoundError"
        /\ reader = "none"
        /\ ~header.nonempty
        /\ entries = <<>>

\* C11: extraction happens only once the data-region start is known: in every
\* sequence of calls, extract_file first on a fresh reader and archives with an
\* encrypted or empty index included, each read extract_file performs is
\* positioned from the data-region start computed from the decoded header,
\* never from the initial value 0.
C11_ExtractOnlyReady ==
    (last.op = "extract_file" /\ \E k \in 1..Len(last.io) : last.io[k].k = "seek") =>
        /\ file_data_offset # 0
        /\ file_data_offset = DataRegionStart
        /\ LastSeek = Ev("seek", DataRegionStart + last.entry.offset)

\* C12: in every interleaving of two threads calling list_files / extract_file
\* on one fresh reader, no thread ever finds the entries list non-empty while
\* file_data_offset still holds its initial value, and no extraction seeks
\* relative to that unset data-region start.
C12_ReadyIsAtomic ==
    \A t \in Threads :
        /\ threads[t].saw # "unset"
        /\ threads[t].base # 0

\* C13: once the reader is Ready, extract_file calls running concurrently in
\* any interleaving each return exactly the bytes they return when run alone:
\* each call seeks and reads on a file object of its own, so no seek of one
\* extraction moves the position another's read uses.
C13_ExtractsIndependent ==
    \A t \in Threads :
        (threads[t].op = "extract_file" /\ threads[t].pc = "idle" /\ threads[t].ready) =>
            /\ threads[t].data = ExtractOf(pack, Self, threads[t].entry).data
            /\ threads[t].data =
                   ReadAt(pack.bytes, DataRegionStart + threads[t].entry.offset,
                          threads[t].entry.size)

\* one thread has returned "hi" while the other, extracting another member, has
\* sought and not yet read
C13_Witness ==
    /\ threads["t1"].op = "extract_file"
    /\ threads["t1"].pc = "idle"
    /\ threads["t1"].ready
    /\ threads["t1"].data = <<104, 105>>
    /\ threads["t2"].op = "extract_file"
    /\ threads["t2"].pc = "read"
    /\ threads["t2"].ready
    /\ threads["t2"].entry.offset # threads["t1"].entry.offset

\* upper-case letters (ASCII and Latin-1)
IsUpper(c) == (c >= 65 /\ c <= 90) \/ (c >= 192 /\ c <= 222 /\ c # 215)

\* the same character up to letter case
Caseless(a, b) == a = b \/ (IsUpper(a) /\ b = a + 32) \/ (IsUpper(b) /\ a = b + 32)

\* the pattern of the last call occurs in the entry's path, letter case aside
MatchesPattern(e) ==
    \E k \in 0..(Len(e.path) - Len(last.pattern)) :
        \A j \in 1..Len(last.pattern) : Caseless(last.pattern[j], e.path[k + j])

\* C14: list_files(pattern) returns exactly the decoded entries whose path
\* contains the pattern as a substring, compared case-insensitively, each once
\* and in index order; list_files with no pattern returns all decoded entries
\* in index order.
C14_ListFiles ==
    (last.op = "list_files" /\ last.exc = "") =>
        /\ last.ret = SelectSeq(entries, MatchesPattern)
        /\ last.pattern = <<>> => last.ret = entries

\* pattern "b" on the index a.t, B: the entry B alone
C14_Witness ==
    /\ last.op = "list_files"
    /\ last.pattern = <<98>>
    /\ Len(entries) = 2
    /\ entries[1].path = <<97, 46, 116>>
    /\ entries[2].path = <<66>>
    /\ last.ret = <<entries[2]>>

\* the filename of a path: what follows its last "/"
NameOf(path) ==
    LET slashes == {j \in 1..Len(path) : path[j] = 47}
    IN  IF slashes = {} THEN path
        ELSE SubSeq(path, (CHOOSE j \in slashes : \A k \in slashes : k <= j) + 1, Len(path))

\* the key an entry is summarised under: the filename's last "." and what
\* follows it, lower-cased, when that "." is neither the first nor the last
\* character of the filename; else the sentinel
KeyFor(name) ==
    LET dots == {j \in 1..Len(name) : name[j] = 46}
        d == IF dots = {} THEN 0 ELSE CHOOSE j \in dots : \A k \in dots : k <= j
    IN  IF d > 1 /\ d < Len(name)
        THEN [i \in 1..(Len(name) - d + 1) |->
                 IF IsUpper(name[d + i - 1]) THEN name[d + i - 1] + 32 ELSE name[d + i - 1]]
        ELSE NoExtension

KeyOf(e) == KeyFor(NameOf(e.path))

\* the sum of the sizes of the entries at the indices I
RECURSIVE SizeSum(_)
SizeSum(I) ==
    IF I = {} THEN 0
    ELSE LET i == CHOOSE j \in I : TRUE IN entries[i].size + SizeSum(I \ {i})

\* C15: get_file_info groups every decoded entry under exactly one key, the
\* lower-cased filename suffix of its path or '.no_extension' when there is
\* none; each key's count is the number of entries with that suffix, its size
\* the sum of their sizes, and no key has count 0.
C15_GroupBySuffix ==
    (last.op = "get_file_info" /\ last.exc = "") =>
        /\ \A i \in 1..Len(entries) : \E x \in last.info.extensions : x.ext = KeyOf(entries[i])
        /\ \A x, y \in last.info.extensions : x.ext = y.ext => x = y
        /\ \A x \in last.info.extensions :
               /\ x.count = Cardinality({i \in 1..Len(entries) : KeyOf(entries[i]) = x.ext})
               /\ x.count > 0
               /\ x.size = SizeSum({i \in 1..Len(entries) : KeyOf(entries[i]) = x.ext})

\* a.T (1 byte) and d/e.t (2 bytes) are one group ".t" of count 2 and size 3
C15_Witness ==
    /\ last.op = "get_file_info"
    /\ Len(entries) = 2
    /\ entries[1].path = <<97, 46, 84>>
    /\ entries[2].path = <<100, 47, 101, 46, 116>>
    /\ last.info.extensions = {[ext |-> <<46, 116>>, count |-> 2, size |-> 3]}

\* the orders a list of n entries can be given in
Perms(n) == {f \in [1..n -> 1..n] : \A i, j \in 1..n : f[i] = f[j] => i = j}

\* sum is the summary the last call returned
SameSummary(sum) ==
    /\ sum.extensions = last.info.extensions
    /\ sum.total_size = last.info.total_size

\* C16: the summary of get_file_info is order-independent and deterministic:
\* every permutation of the same entries gives the same suffix -> {count, size}
\* mapping; an empty entry list gives an empty mapping with file_count 0 and
\* total_size 0, and get_file_info does not fail on an archive it can decode.
C16_OrderIndependent ==
    /\ (last.op = "get_file_info" /\ last.exc = "") =>
           /\ \A f \in Perms(Len(entries)) :
                  SameSummary(Summarize([i \in 1..Len(entries) |-> entries[f[i]]], {}, 0))
           /\ entries = <<>> =>
                  /\ last.info.extensions = {}
                  /\ last.info.file_count = 0
                  /\ last.info.total_size = 0
    /\ (last.op = "get_file_info" /\ GoodHeader) => last.exc = ""

\* two entries of one group and of different sizes, summarised
C16_Witness ==
    /\ last.op = "get_file_info"
    /\ last.exc = ""
    /\ Len(entries) = 2
    /\ KeyOf(entries[1]) = KeyOf(entries[2])
    /\ entries[1].size # entries[2].size
    /\ Cardinality(last.info.extensions) = 1

\* read_file_index has run to its end on this reader (or would return at once:
\* the header is loaded and says the index is encrypted)
Indexed == header.nonempty /\ (file_data_offset # 0 \/ header.index_encrypted)

\* C17: once read_file_index has completed, every later list_files,
\* extract_file and get_file_info leaves header, entries and file_data_offset
\* unchanged and does not decode the index again, also when the archive has
\* zero members or an encrypted index.
C17_IndexedOnce ==
    [][(Indexed /\ last'.op \in {"list_files", "extract_file", "get_file_info"}) =>
           /\ UNCHANGED <<header, entries, file_data_offset>>
           /\ ~last'.parsed]_vars

\* C18: no operation ever writes to the archive: after any sequence of
\* read_header, read_file_index, list_files, get_file_info and extract_file
\* calls, with or without an output path, the archive file's bytes are what
\* they were before.
C18_ArchiveUntouched == [][pack'.bytes = pack.bytes]_vars

\* the archive file objects open after the first k file events of the last call
RECURSIVE OpenAfter(_)
OpenAfter(k) ==
    IF k = 0 THEN 0
    ELSE OpenAfter(k - 1) + (IF last.io[k].k = "open" THEN 1
                             ELSE IF last.io[k].k = "close" THEN -1 ELSE 0)

\* C19: every file object that read_header, read_file_index or extract_file
\* opens on the archive is closed when the operation ends, on every exit path:
\* normal return, early return, raised error; no operation leaves one open.
C19_HandlesClosed ==
    /\ OpenAfter(Len(last.io)) = 0
    /\ \A k \in 1..Len(last.io) :
           /\ OpenAfter(k) \in {0, 1}
           /\ last.io[k].k \in {"seek", "read"} => OpenAfter(k) = 1

\* read_header left by the format error, the file opened and closed
C19_Witness ==
    /\ last.op = "read_header"
    /\ last.exc = "ValueError"
    /\ Len(last.io) = 3
    /\ last.io[1].k = "open"
    /\ last.io[3].k = "close"

\* the bytes entry e occupies in the data region
Occupied(e) == IF pack.made.pad THEN RoundUp8(e.size) ELSE e.size

\* C20: for every valid archive the decoded entries' offsets are non-decreasing
\* in index order, and the data-region start plus the last entry's offset plus
\* its size (rounded up to a multiple of 8 when the padding flag is set) does
\* not exceed the size of the archive file.
C20_OffsetsWithinFile ==
    (pack.made.known /\ file_data_offset # 0) =>
        /\ Len(entries) = Len(pack.made.members)
        /\ \A i \in 1..(Len(entries) - 1) : entries[i].offset <= entries[i + 1].offset
        /\ entries # <<>> =>
               file_data_offset + entries[Len(entries)].offset
                   + Occupied(entries[Len(entries)]) <= Len(pack.bytes)

\* a padded archive of two members whose last member ends with the file
C20_Witness ==
    /\ pack.made.known
    /\ pack.made.pad
    /\ last.op = "read_file_index"
    /\ Len(entries) = 2
    /\ entries[2].offset = 8
    /\ entries[2].size = 2
    /\ file_data_offset + 16 = Len(pack.bytes)

\* the reader's fields are what they were
ReaderKept == UNCHANGED <<header, entries, file_data_offset>>

\* C21: a failed operation does not corrupt the reader: when read_header raises
\* a format error, or extract_file fails for one member, header, entries and
\* file_data_offset are left as they were before the call, and a following
\* extract_file on a member returns that member's bytes.
C21_FailureKeepsReader ==
    [][/\ (last'.op = "read_header" /\ last'.exc # "") => ReaderKept
       /\ (last'.op = "extract_file" /\ last'.own /\ last'.exc # "") => ReaderKept
       /\ (/\ last.op = "extract_file" /\ last.own /\ last.exc # ""
           /\ last'.op = "extract_file" /\ last'.own /\ last'.exc = ""
           /\ pack.made.known) =>
              \A i \in 1..Len(entries) :
                  entries[i] = last'.entry => last'.data = pack.made.members[i].blob]_vars

\* extract_file of a member of a two-member index has failed
C21_Witness ==
    /\ last.op = "extract_file"
    /\ last.own
    /\ last.exc = "OSError"
    /\ Len(entries) = 2
    /\ file_data_offset # 0

\* the indices of the archive's members named file_path
Named(file_path) ==
    {i \in 1..Len(pack.made.members) : pack.made.members[i].path = file_path}

\* the least index in a non-empty set of indices
First(I) == CHOOSE i \in I : \A j \in I : i <= j

\* C30: when the extract command is given a name that equals the full path of
\* some member, the member it extracts has exactly that path (an earlier entry
\* whose path merely ends with the name is not extracted in its place), and the
\* bytes written to the output file are that member's bytes.
C30_ExactPathWins ==
    (last.op = "cli_extract" /\ pack.made.known /\ Named(last.file_path) # {}) =>
        /\ last.exc = ""
        /\ last.entry.path = last.file_path
        /\ output.exists
        /\ \E i \in Named(last.file_path) :
               /\ last.ret[i] = last.entry
               /\ output.bytes = pack.made.members[i].blob

\* the bytes of the members before member i of the archive
RECURSIVE BlobsBefore(_)
BlobsBefore(i) ==
    IF i <= 1 THEN 0 ELSE BlobsBefore(i - 1) + Len(pack.made.members[i - 1].blob)

\* C22: an index holding the same path more than once is decoded without
\* rejection: every record yields an entry and the offsets of later members
\* are cumulative over all records; looking a member up by such a path selects
\* its first occurrence in index order.
C22_DuplicatePaths ==
    (last.op = "cli_extract" /\ pack.made.known) =>
        /\ Len(last.ret) = Len(pack.made.members)
        /\ \A i \in 1..Len(last.ret) :
               /\ last.ret[i].path = pack.made.members[i].path
               /\ last.ret[i].offset = BlobsBefore(i)
        /\ Cardinality(Named(last.file_path)) > 1 =>
               /\ last.exc = ""
               /\ last.entry = last.ret[First(Named(last.file_path))]

\* where the member index starts in the archive
IndexAt == DataRegionStart - WordAt(20)

\* the path bytes of the first record: from the start of the index to the byte
\* before its first zero byte
FirstPathBytes ==
    LET zeros == {k \in (IndexAt + 1)..Len(pack.bytes) : pack.bytes[k] = 0}
    IN  SubSeq(pack.bytes, IndexAt + 1, First(zeros) - 1)

\* raw is well-formed UTF-8 of one- and two-byte sequences from byte i on
RECURSIVE ValidUtf8From(_, _)
ValidUtf8From(raw, i) ==
    IF i > Len(raw) THEN TRUE
    ELSE IF raw[i] < 128 THEN ValidUtf8From(raw, i + 1)
    ELSE /\ raw[i] >= 194 /\ raw[i] <= 223
         /\ i + 1 <= Len(raw)
         /\ raw[i + 1] >= 128 /\ raw[i + 1] <= 191
         /\ ValidUtf8From(raw, i + 2)

\* C23: decoding a record's path never fails on bytes that are not valid
\* UTF-8: each invalid sequence between the cursor and the zero terminator is
\* replaced by the replacement character U+FFFD in the resulting path, not rejected
\* and not dropped, and the cursor still advances to just past the terminator.
C23_InvalidUtf8Replaced ==
    (last.op = "read_file_index" /\ last.parsed /\ entries # <<>>) =>
        /\ last.exc = ""
        /\ ~ValidUtf8From(FirstPathBytes, 1) =>
               65533 \in Range(entries[1].path)
        /\ last.pos >= Len(FirstPathBytes) + 1

\* the number of index bytes the archive supplies: file_index_size of them, or
\* what the file holds from the start of the index when that is fewer
SuppliedLen ==
    IF Len(pack.bytes) <= IndexAt THEN 0
    ELSE IF Len(pack.bytes) - IndexAt < WordAt(20) THEN Len(pack.bytes) - IndexAt
    ELSE WordAt(20)

\* C24: the cursor of index decoding stays within 0..length of the supplied
\* index bytes, so no field is read past the end of the index block; when all
\* file_index_count records are decoded and bytes remain in the block, decoding
\* succeeds with file_index_count entries.
C24_CursorWithinIndex ==
    last.parsed =>
        /\ 0 <= last.pos
        /\ last.pos <= SuppliedLen
        /\ (last.stop = "" /\ last.pos < SuppliedLen) =>
               /\ last.exc = ""
               /\ Len(entries) = WordAt(16)

\* one record declared and decoded, the bytes of a second left over
C24_Witness ==
    /\ last.op = "read_file_index"
    /\ last.parsed
    /\ WordAt(16) = 1
    /\ Len(entries) = 1
    /\ last.pos < SuppliedLen
    /\ last.stop = ""

C26_HeaderBeforeIndex ==
    [][/\ last'.parsed =>
              /\ header'.nonempty
              /\ last'.exc = ""
              /\ \/ header.nonempty
                 \/ /\ Len(last'.io) >= 7
                    /\ last'.io[2] = Ev("read", 32)
                    /\ last'.io[5].k = "seek"
       /\ (last'.op = "read_file_index" /\ last'.exc # "") =>
              /\ ~last'.parsed
              /\ \A k \in 1..Len(last'.io) : last'.io[k].k # "seek"
              /\ entries' = <<>>
              /\ ~header'.nonempty]_vars

\* read_file_index on a reader without a header: the header was read, then
\* the index
C26_Witness ==
    /\ last.op = "read_file_index"
    /\ last.parsed
    /\ Len(last.io) = 7
    /\ last.io[2] = Ev("read", 32)
    /\ Len(entries) = 2
    /\ header.nonempty

\* the bytes of a path in the index: one per ASCII character, two per
\* character from U+0080 to U+07FF
RECURSIVE ByteLen(_)
ByteLen(path) ==
    IF path = <<>> THEN 0 ELSE (IF Head(path) < 128 THEN 1 ELSE 2) + ByteLen(Tail(path))

\* the index bytes of the first i members' records
RECURSIVE RecordBytes(_)
RecordBytes(i) ==
    IF i = 0 THEN 0
    ELSE RecordBytes(i - 1) + ByteLen(pack.made.members[i].path) + 1 + 4
         + (IF Bit(WordAt(4), 10) THEN 4 ELSE 0)

\* C27: each index record consumes exactly path length + 1 + 4 bytes when the
\* timestamps flag is clear and path length + 1 + 4 + 4 when it is set, with
\* no padding between fields or records; an entry has a timestamp if and only
\* if the flag is set, and it is the little-endian 32-bit value after the size.
C27_RecordLayout ==
    (last.op = "read_file_index" /\ last.parsed) =>
        /\ \A i \in 1..Len(entries) : (entries[i].timestamp # None) <=> Bit(WordAt(4), 10)
        /\ (entries # <<>> /\ Bit(WordAt(4), 10)) =>
               entries[1].timestamp = WordAt(IndexAt + Len(FirstPathBytes) + 1 + 4)
        /\ entries # <<>> => entries[1].size = WordAt(IndexAt + Len(FirstPathBytes) + 1)
        /\ pack.made.known =>
               /\ Len(entries) = Len(pack.made.members)
               /\ last.pos = RecordBytes(Len(entries))
               /\ Bit(WordAt(4), 10) =>
                      \A i \in 1..Len(entries) : entries[i].timestamp = StampOf(i)

\* two records with timestamps, the first path of two bytes: 2+1+4+4 and
\* 1+1+4+4 bytes
C27_Witness ==
    /\ last.op = "read_file_index"
    /\ pack.made.known
    /\ Bit(WordAt(4), 10)
    /\ Len(entries) = 2
    /\ entries[1].path = <<233>>
    /\ entries[2].path = <<66>>
    /\ last.pos = 21
    /\ entries[2].timestamp = 16909062

\* the per-suffix counts and sizes of a summary, added up
RECURSIVE SumCounts(_)
SumCounts(X) ==
    IF X = {} THEN 0 ELSE LET x == CHOOSE y \in X : TRUE IN x.count + SumCounts(X \ {x})

RECURSIVE SumSizes(_)
SumSizes(X) ==
    IF X = {} THEN 0 ELSE LET x == CHOOSE y \in X : TRUE IN x.size + SumSizes(X \ {x})

\* C28: in every result of get_file_info, file_count is the number of decoded
\* entries and the sum of the per-suffix counts, and total_size is the sum of
\* all entry sizes and the sum of the per-suffix sizes.
C28_Totals ==
    (last.op = "get_file_info" /\ last.exc = "") =>
        /\ last.info.file_count = Len(entries)
        /\ last.info.file_count = SumCounts(last.info.extensions)
        /\ last.info.total_size = SizeSum(1..Len(entries))
        /\ last.info.total_size = SumSizes(last.info.extensions)

\* a.t (3 bytes) and B (2 bytes): two groups, 2 files, 5 bytes
C28_Witness ==
    /\ last.op = "get_file_info"
    /\ Len(entries) = 2
    /\ Cardinality(last.info.extensions) = 2
    /\ last.info.file_count = 2
    /\ last.info.total_size = 5

\* C29: index decoding terminates on every input: the record loop runs at most
\* file_index_count iterations, each completed iteration advances the cursor
\* by at least 5 bytes, and the number of entries produced is bounded by
\* file_index_count and by the index length divided by 5.
C29_BoundedDecoding ==
    last.parsed =>
        /\ Len(entries) <= WordAt(16)
        /\ 5 * Len(entries) <= last.pos
        /\ Len(entries) <= SuppliedLen \div 5
        /\ last.stop \in {"", "exhausted", "no terminator", "no size", "no timestamp"}
        /\ last.stop = "" => Len(entries) = WordAt(16)

\* two records of 5 bytes each (empty paths): the cursor ends at 10
C29_Witness ==
    /\ last.op = "read_file_index"
    /\ last.parsed
    /\ Len(entries) = 2
    /\ last.pos = 10
    /\ SuppliedLen = 10

====
